---- MODULE Spec2Model ----
(***************************************************************************)
(* Model of the R module of starship (src/modules/r.rs, src/configs/r.rs). *)
(*                                                                         *)
(* Text is a sequence of one-character strings.  Option<T> is a sequence   *)
(* of length at most one: None is << >> and Some(x) is << x >>.            *)
(***************************************************************************)
EXTENDS Integers, Sequences, FiniteSets, TLC

----------------------------------------------------------------------------
(* Options *)

None == << >>

Some(x) == << x >>

IsSome(o) == Len(o) = 1

Unwrap(o) == o[1]

----------------------------------------------------------------------------
(* Characters and text *)

Digits == {"0", "1", "2", "3", "4", "5", "6", "7", "8", "9"}

\* what char::is_whitespace (str::trim) removes, among the characters modelled
Whitespace == {" ", "\t", "\n"}

IsDigit(c) == c \in Digits

RECURSIVE Concat(_)
\* the concatenation of a sequence of texts
Concat(ts) == IF ts = << >> THEN << >> ELSE Head(ts) \o Concat(Tail(ts))

\* s[i..j] matches \d+
DigitRun(s, i, j) == i <= j /\ j <= Len(s) /\ \A k \in i..j : IsDigit(s[k])

\* MatchesAt without the space that ends the pattern
MatchesAtNoEnd(s, i, c) ==
    /\ i >= 1 /\ i <= Len(s) /\ s[i] = " "
    /\ \E a \in (i + 1)..(c - 4) :
         /\ DigitRun(s, i + 1, a)
         /\ s[a + 1] = "."
         /\ \E b \in (a + 2)..(c - 2) :
              /\ DigitRun(s, a + 2, b)
              /\ s[b + 1] = "."
              /\ DigitRun(s, b + 2, c)

\* R_VERSION_PATTERN = r" (?P<rversion>\d+\.\d+\.\d+) " matches s from position
\* i, its capture group being s[i+1..c]
MatchesAt(s, i, c) ==
    /\ i >= 1 /\ i <= Len(s) /\ s[i] = " "
    /\ \E a \in (i + 1)..(c - 4) :
         /\ DigitRun(s, i + 1, a)
         /\ s[a + 1] = "."
         /\ \E b \in (a + 2)..(c - 2) :
              /\ DigitRun(s, a + 2, b)
              /\ s[b + 1] = "."
              /\ DigitRun(s, b + 2, c)
    /\ c + 1 <= Len(s) /\ s[c + 1] = " "

\* the positions at which R_VERSION_PATTERN matches
MatchStarts(s) == {i \in 1..Len(s) : \E c \in (i + 5)..(Len(s) - 1) : MatchesAt(s, i, c)}

Min(S) == CHOOSE x \in S : \A y \in S : x <= y

Max(S) == CHOOSE x \in S : \A y \in S : x >= y

\* Captures taking the last match instead of the first
CapturesLast(s) ==
    IF MatchStarts(s) = {} THEN None
    ELSE LET i == Max(MatchStarts(s))
             c == Max({e \in (i + 5)..(Len(s) - 1) : MatchesAt(s, i, e)})
         IN  Some(SubSeq(s, i + 1, c))

\* Regex::captures(version): the leftmost match, its \d+ greedy; the value is
\* the text of the group "rversion", None when nothing matches
Captures(s) ==
    IF MatchStarts(s) = {} THEN None
    ELSE LET i == Min(MatchStarts(s))
             c == Max({e \in (i + 5)..(Len(s) - 1) : MatchesAt(s, i, e)})
         IN  Some(SubSeq(s, i + 1, c))

RECURSIVE TrimStart(_)
TrimStart(s) == IF s # << >> /\ Head(s) \in Whitespace THEN TrimStart(Tail(s)) ELSE s

RECURSIVE TrimEnd(_)
TrimEnd(s) ==
    IF s # << >> /\ s[Len(s)] \in Whitespace THEN TrimEnd(SubSeq(s, 1, Len(s) - 1)) ELSE s

\* str::trim
Trim(s) == TrimEnd(TrimStart(s))

\* FormatV without the "v"
FormatNoV(r_version) == r_version

\* format!("{}{}", "v", r_version)
FormatV(r_version) == <<"v">> \o r_version

\* fn parse_version(version: &str) -> Option<String>
parse_version(version) ==
    LET captures == Captures(version)
    IN  IF ~IsSome(captures) THEN None
        ELSE Some(Trim(FormatV(Unwrap(captures))))

----------------------------------------------------------------------------
(* Bounds and input universes *)

\* a text of the parse_version harness is made of at most MaxPieces pieces
MaxPieces == 5

V363 == <<"3", ".", "6", ".", "3">>

V4012 == <<"4", ".", "0", ".", "1", "2">>

V3652 == <<"3", ".", "6", ".", "5", ".", "2">>

\* the pieces texts are made of: a space, a tab (whitespace that is no space),
\* a letter, a dot, a number, and two dotted runs of three components; longer
\* and shorter runs are made of these ("3.6.3.10", "10.10")
Pieces == {<<" ">>, <<"\t">>, <<"R">>, <<".">>, <<"1", "0">>, V363, V4012}

Texts == {Concat(ps) : ps \in UNION {[1..k -> Pieces] : k \in 0..MaxPieces}}

\* outputs of `r --version`: "R version 3.6.3 (", "R version 3.6.5.2 (",
\* "R version 4.0.12 (" shortened, and no output
CmdTexts ==
    { << >>,
      <<"R", " ">> \o V363 \o <<" ", "(">>,
      <<"R", " ">> \o V3652 \o <<" ", "(">>,
      <<"R", " ">> \o V4012 \o <<" ", "(">> }

\* what exec_cmd can return: None, or a CommandOutput { stdout, stderr }
CmdOutputs == {None} \cup {Some([stdout |-> o, stderr |-> e]) : o \in CmdTexts, e \in CmdTexts}

\* the extensions of the files a directory holds
Extensions == {"R", "r", "js"}

\* what try_begin_scan can return: None, or a scan of the directory
Scans == {None} \cup {Some(d) : d \in SUBSET Extensions}

TextElem(t, style) == [kind |-> "text", val |-> t, style |-> style]

VarElem(name, style) == [kind |-> "var", val |-> name, style |-> style]

\* RConfig::new().format: "via [R $version](blue bold) "
DefaultFormat ==
    [malformed |-> FALSE,
     elems |-> << TextElem(<<"v", "i", "a", " ">>, ""),
                  TextElem(<<"R", " ">>, "blue bold"),
                  VarElem("version", "blue bold"),
                  TextElem(<<" ">>, "") >>]

\* the format strings a configuration can hold: the default, "$version",
\* "$version-$version", "[$ver $version](bold)", "$ver$release", "R", and
\* "via [R $version(blue bold) ", which does not parse
Formats ==
    { DefaultFormat,
      [malformed |-> FALSE, elems |-> << VarElem("version", "") >>],
      [malformed |-> FALSE,
       elems |-> << VarElem("version", ""), TextElem(<<"-">>, ""), VarElem("version", "") >>],
      [malformed |-> FALSE,
       elems |-> << VarElem("ver", "bold"), TextElem(<<" ">>, "bold"), VarElem("version", "bold") >>],
      [malformed |-> FALSE, elems |-> << VarElem("ver", ""), VarElem("release", "") >>],
      [malformed |-> FALSE, elems |-> << TextElem(<<"R">>, "") >>],
      [malformed |-> TRUE, elems |-> << >>] }

----------------------------------------------------------------------------
(* State *)

VARIABLES
    disabled,           \* RConfig.disabled
    format,             \* RConfig.format
    scan,               \* what context.try_begin_scan() returns
    cmd,                \* what utils::exec_cmd("r", &["--version"]) returns
    pc,                 \* where the invocation of module(context) stands
    r_version,          \* module's local r_version
    formatted_version,  \* module's local formatted_version
    result,             \* what the invocation returned: None or Some(module)
    log,                \* the records written to the log
    ran,                \* the collaborators called so far, in order
    tpc,                \* where the test of parse_version stands
    text,               \* the text the test passes to parse_version
    parsed,             \* what parse_version returned for it
    reparsed,           \* what parse_version returned for " " + result + " "
    retried             \* what it returned for " " + result less its "v" + " "

env == <<disabled, format, scan, cmd>>

locals == <<r_version, formatted_version>>

pipeline == <<env, pc, locals, result, log, ran>>

harness == <<tpc, text, parsed, reparsed, retried>>

vars == <<pipeline, harness>>

Debug(msg) == [level |-> "debug", msg |-> msg]

Warn(msg) == [level |-> "warn", msg |-> msg]

----------------------------------------------------------------------------
(* The collaborators of module(context) *)

\* ScanDir::set_extensions(exts).is_match(): some file of the directory has
\* one of the extensions, compared exactly
is_match(dir, exts) == dir \cap exts # {}

\* context.new_module(name): a module with the default prefix and suffix
new_module(name) == [name |-> name, prefix |-> "via ", suffix |-> " ", segments |-> << >>]

\* StringFormatter::new(format): Err for a format string that does not parse
StringFormatterNew(fmt) == IF fmt.malformed THEN None ELSE Some(fmt.elems)

\* the variables of a parsed format string
FormatVariables(elems) == {elems[i].val : i \in {j \in 1..Len(elems) : elems[j].kind = "var"}}

\* VersionMapper giving every variable the version
VersionMapperAll(version, variable) == Some(version)

\* the value the closure of module() gives a variable
VersionMapper(version, variable) ==
    IF variable = "version" THEN Some(version) ELSE None

\* what the closure of module() logs for a variable
VersionMapperLog(variable) ==
    IF variable = "version" THEN << >>
    ELSE << Debug("r: No version for R has been detected.") >>

RECURSIVE MapLog(_)
\* what StringFormatter::map logs: it calls the closure once per variable
MapLog(names) ==
    IF names = {} THEN << >>
    ELSE LET n == CHOOSE x \in names : TRUE
         IN  VersionMapperLog(n) \o MapLog(names \ {n})

RECURSIVE FormatterParse(_, _)
\* StringFormatter::parse(None): a segment per text element and per variable
\* that has a value; a variable without a value gives no segment
FormatterParse(elems, values) ==
    IF elems = << >> THEN << >>
    ELSE LET e == Head(elems)
             rest == FormatterParse(Tail(elems), values)
         IN  IF e.kind = "text" THEN <<[value |-> e.val, style |-> e.style]>> \o rest
             ELSE IF IsSome(values[e.val])
                  THEN <<[value |-> Unwrap(values[e.val]), style |-> e.style]>> \o rest
                  ELSE rest

----------------------------------------------------------------------------
(* module(context), one action per call it makes to a collaborator *)

Return(r) == /\ result' = r
             /\ pc' = "done"

\* HostDispatch calling the module whatever disabled is
HostDispatchAlways ==
    /\ pc = "host"
    /\ pc' = "module"
    /\ UNCHANGED <<env, locals, result, log, ran, harness>>

\* the host: a module whose configuration has disabled = true is not called
HostDispatch ==
    /\ pc = "host"
    /\ IF disabled
       THEN /\ Return(None)
       ELSE /\ pc' = "module"
            /\ result' = result
    /\ UNCHANGED <<env, locals, log, ran, harness>>

\* Detect going on to the command when the directory holds no R file
DetectFallsThrough ==
    /\ pc = "module"
    /\ ran' = Append(ran, "try_begin_scan")
    /\ IF ~IsSome(scan)
       THEN /\ Return(None)
            /\ log' = log
       ELSE LET is_r_project == is_match(Unwrap(scan), {"R"})
            IN  /\ log' = Append(log, IF is_r_project
                                      THEN Debug("r: This is a R project; getting in...")
                                      ELSE Debug("r: Not a R project; getting out!"))
                /\ pc' = "exec_cmd"
                /\ result' = result
    /\ UNCHANGED <<env, locals, harness>>

\* lines 18-24: the detection
Detect ==
    /\ pc = "module"
    /\ ran' = Append(ran, "try_begin_scan")
    /\ IF ~IsSome(scan)
       THEN /\ Return(None)
            /\ log' = log
       ELSE LET is_r_project == is_match(Unwrap(scan), {"R"})
            IN  IF ~is_r_project
                THEN /\ log' = Append(log, Debug("r: Not a R project; getting out!"))
                     /\ Return(None)
                ELSE /\ log' = Append(log, Debug("r: This is a R project; getting in..."))
                     /\ pc' = "exec_cmd"
                     /\ result' = result
    /\ UNCHANGED <<env, locals, harness>>

\* VersionStream reading the other stream
VersionStreamStdout(output) == output.stdout

\* the stream of the command's output that module() reads
VersionStream(output) == output.stderr

\* lines 26-27: the command
ExecCmd ==
    /\ pc = "exec_cmd"
    /\ ran' = Append(ran, "exec_cmd")
    /\ IF ~IsSome(cmd)
       THEN /\ Return(None)
            /\ UNCHANGED <<r_version, log>>
       ELSE /\ r_version' = VersionStream(Unwrap(cmd))
            /\ log' = Append(log, Debug("r: r_version={}"))
            /\ pc' = "parse_version"
            /\ result' = result
    /\ UNCHANGED <<env, formatted_version, harness>>

\* ParseVersion going on with an empty version when none is parsed
ParseVersionOrEmpty ==
    /\ pc = "parse_version"
    /\ ran' = Append(ran, "parse_version")
    /\ LET v == parse_version(r_version)
       IN  /\ formatted_version' = IF IsSome(v) THEN Unwrap(v) ELSE << >>
           /\ log' = log \o << Debug("r: r_version = {}"),
                               Debug("r: formatted_version={}") >>
           /\ pc' = "format"
           /\ result' = result
    /\ UNCHANGED <<env, r_version, harness>>

\* lines 29-30: the version
ParseVersion ==
    /\ pc = "parse_version"
    /\ ran' = Append(ran, "parse_version")
    /\ LET v == parse_version(r_version)
       IN  IF ~IsSome(v)
           THEN /\ Return(None)
                /\ UNCHANGED <<formatted_version, log>>
           ELSE /\ formatted_version' = Unwrap(v)
                /\ log' = log \o << Debug("r: r_version = {}"),
                                    Debug("r: formatted_version={}") >>
                /\ pc' = "format"
                /\ result' = result
    /\ UNCHANGED <<env, r_version, harness>>

\* Rendered leaving the suffix of new_module in place
RenderedKeepsSuffix(elems) ==
    LET values == [n \in FormatVariables(elems) |-> VersionMapper(formatted_version, n)]
        module == new_module("r")
    IN  [module EXCEPT !.segments = FormatterParse(elems, values),
                       !.prefix = ""]

\* the module that module() returns, given the parsed format string
Rendered(elems) ==
    LET values == [n \in FormatVariables(elems) |-> VersionMapper(formatted_version, n)]
        module == new_module("r")
    IN  [module EXCEPT !.segments = FormatterParse(elems, values),
                       !.prefix = "",
                       !.suffix = ""]

\* Format logging the malformed format at debug level
FormatWarnsAsDebug ==
    /\ pc = "format"
    /\ ran' = Append(ran, "StringFormatter::new")
    /\ LET formatter == StringFormatterNew(format)
       IN  IF ~IsSome(formatter)
           THEN /\ log' = Append(log, Debug("Error parsing format string in r.format"))
                /\ Return(None)
           ELSE /\ log' = log \o MapLog(FormatVariables(Unwrap(formatter)))
                /\ Return(Some(Rendered(Unwrap(formatter))))
    /\ UNCHANGED <<env, locals, harness>>

\* lines 32-50: the format string and the module
Format ==
    /\ pc = "format"
    /\ ran' = Append(ran, "StringFormatter::new")
    /\ LET formatter == StringFormatterNew(format)
       IN  IF ~IsSome(formatter)
           THEN /\ log' = Append(log, Warn("Error parsing format string in r.format"))
                /\ Return(None)
           ELSE /\ log' = log \o MapLog(FormatVariables(Unwrap(formatter)))
                /\ Return(Some(Rendered(Unwrap(formatter))))
    /\ UNCHANGED <<env, locals, harness>>

----------------------------------------------------------------------------
(* The tests of parse_version *)

\* test_parse_r_version, test_parse_r_invalid_semantic_version
CallParseVersion ==
    /\ tpc = "call"
    /\ parsed' = parse_version(text)
    /\ tpc' = "called"
    /\ UNCHANGED <<text, reparsed, retried, pipeline>>

\* parse_version again, on " " + result + " "
CallAgain ==
    /\ tpc = "called"
    /\ IsSome(parsed)
    /\ reparsed' = parse_version(<<" ">> \o Unwrap(parsed) \o <<" ">>)
    /\ tpc' = "again"
    /\ UNCHANGED <<text, parsed, retried, pipeline>>

\* parse_version on " " + the triplet of the result + " "
CallOnTriplet ==
    /\ tpc = "again"
    /\ retried' = parse_version(<<" ">> \o Tail(Unwrap(parsed)) \o <<" ">>)
    /\ tpc' = "retried"
    /\ UNCHANGED <<text, parsed, reparsed, pipeline>>

----------------------------------------------------------------------------
(* Specifications *)

HarnessOff ==
    /\ tpc = "off"
    /\ text = << >>
    /\ parsed = None
    /\ reparsed = None
    /\ retried = None

PipelineOff ==
    /\ disabled = FALSE
    /\ format = DefaultFormat
    /\ scan = None
    /\ cmd = None
    /\ pc = "off"
    /\ r_version = << >>
    /\ formatted_version = << >>
    /\ result = None
    /\ log = << >>
    /\ ran = << >>

Init ==
    /\ disabled \in BOOLEAN
    /\ format \in Formats
    /\ scan \in Scans
    /\ cmd \in CmdOutputs
    /\ pc = "host"
    /\ r_version = << >>
    /\ formatted_version = << >>
    /\ result = None
    /\ log = << >>
    /\ ran = << >>
    /\ HarnessOff

Next ==
    \/ HostDispatch
    \/ Detect
    \/ ExecCmd
    \/ ParseVersion
    \/ Format

Spec == Init /\ [][Next]_vars

InitParse ==
    /\ PipelineOff
    /\ tpc = "call"
    /\ text \in Texts
    /\ parsed = None
    /\ reparsed = None
    /\ retried = None

NextParse ==
    \/ CallParseVersion
    \/ CallAgain
    \/ CallOnTriplet

SpecParse == InitParse /\ [][NextParse]_vars

----------------------------------------------------------------------------
(* Vocabulary of the properties of parse_version *)

\* s[i..j] is a dotted numeric run d+(.d+)*
IsDottedRun(s, i, j) ==
    /\ 1 <= i /\ i <= j /\ j <= Len(s)
    /\ IsDigit(s[i]) /\ IsDigit(s[j])
    /\ \A k \in i..j : IsDigit(s[k]) \/ s[k] = "."
    /\ \A k \in i..(j - 1) : ~(s[k] = "." /\ s[k + 1] = ".")

\* the number of components of the dotted run s[i..j]
Components(s, i, j) == Cardinality({k \in i..j : s[k] = "."}) + 1

\* the dotted run s[i..j] is part of no longer one
IsMaximalRun(s, i, j) ==
    /\ IsDottedRun(s, i, j)
    /\ ~(i > 1 /\ IsDigit(s[i - 1]))
    /\ ~(i > 2 /\ s[i - 1] = "." /\ IsDigit(s[i - 2]))
    /\ ~(j < Len(s) /\ IsDigit(s[j + 1]))
    /\ ~(j + 1 < Len(s) /\ s[j + 1] = "." /\ IsDigit(s[j + 2]))

MaximalRuns(s) == {r \in (1..Len(s)) \X (1..Len(s)) : IsMaximalRun(s, r[1], r[2])}

\* s[i..j] is a triplet d+.d+.d+ with a character of W right before and after
IsDelimitedTriplet(s, i, j, W) ==
    /\ 1 < i /\ i <= j /\ j < Len(s)
    /\ s[i - 1] \in W /\ s[j + 1] \in W
    /\ IsDottedRun(s, i, j)
    /\ Components(s, i, j) = 3

DelimitedTriplets(s, W) ==
    {r \in (1..Len(s)) \X (1..Len(s)) : IsDelimitedTriplet(s, r[1], r[2], W)}

\* the first triplet of s delimited by characters of W, in document order
FirstDelimitedTriplet(s, W) ==
    LET r == CHOOSE x \in DelimitedTriplets(s, W) :
                 \A y \in DelimitedTriplets(s, W) : x[1] <= y[1]
    IN  SubSeq(s, r[1], r[2])

----------------------------------------------------------------------------
(* C2 *)

\* C2 as claimed: for every text with a triplet d+.d+.d+ delimited by
\* whitespace of any kind (space, tab, newline), parse_version returns "v"
\* followed by the first such triplet.
C2_AnyWhitespace ==
    (tpc # "call" /\ DelimitedTriplets(text, Whitespace) # {})
        => parsed = Some(<<"v">> \o FirstDelimitedTriplet(text, Whitespace))

\* C2 amended: for every text with a triplet d+.d+.d+ that has a space
\* character (U+0020) right before and right after it, parse_version returns
\* "v" followed by the first such triplet, whatever follows it.
C2_SpaceDelimited ==
    (tpc # "call" /\ DelimitedTriplets(text, {" "}) # {})
        => parsed = Some(<<"v">> \o FirstDelimitedTriplet(text, {" "}))

\* C2's case: two different space-delimited triplets, the first one returned
C2_Witness ==
    /\ tpc = "called"
    /\ \E x, y \in DelimitedTriplets(text, {" "}) :
         /\ x[1] < y[1]
         /\ SubSeq(text, x[1], x[2]) # SubSeq(text, y[1], y[2])
         /\ parsed = Some(<<"v">> \o SubSeq(text, x[1], x[2]))

----------------------------------------------------------------------------
(* C3 *)

\* C3: when no maximal dotted numeric run of the text has exactly three
\* components, parse_version returns None; and a result is always "v" followed
\* by a whole maximal run of exactly three components, never a part of a
\* longer run.
C3_OnlyWholeTriplets ==
    tpc # "call" =>
        /\ (\A r \in MaximalRuns(text) : Components(text, r[1], r[2]) # 3)
               => parsed = None
        /\ IsSome(parsed) =>
               \E r \in MaximalRuns(text) :
                   /\ Components(text, r[1], r[2]) = 3
                   /\ Unwrap(parsed) = <<"v">> \o SubSeq(text, r[1], r[2])

\* C3's case: a run of four components between spaces, and no run of three
C3_Witness ==
    /\ tpc = "called"
    /\ parsed = None
    /\ \A r \in MaximalRuns(text) : Components(text, r[1], r[2]) # 3
    /\ \E r \in MaximalRuns(text) :
         /\ Components(text, r[1], r[2]) = 4
         /\ r[1] > 1 /\ text[r[1] - 1] = " "
         /\ r[2] < Len(text) /\ text[r[2] + 1] = " "

----------------------------------------------------------------------------
(* C4 *)

\* C4 as claimed: parse_version on " " + r + " ", r a result of
\* parse_version, returns r.
C4_Idempotent ==
    tpc \in {"again", "retried"} => reparsed = parsed

\* C4 amended: for a result r of parse_version, parse_version on
\* " " + r + " " returns None (the "v" of r stands between the space and the
\* digits), and parse_version on " " + t + " ", t being r without its leading
\* "v", returns r.
C4_IdempotentOnTriplet ==
    /\ tpc \in {"again", "retried"} => reparsed = None
    /\ tpc = "retried" => retried = parsed

\* C4's case: a result fed back both ways
C4_Witness ==
    /\ tpc = "retried"
    /\ IsSome(parsed)
    /\ retried = parsed

----------------------------------------------------------------------------
(* Vocabulary of the properties of module(context) *)

\* the directory can be scanned and holds a file with the extension "R"
DetectionPasses == IsSome(scan) /\ "R" \in Unwrap(scan)

\* the version in the stderr of the command, None when there is none or the
\* command gave no output
StderrVersion == IF IsSome(cmd) THEN parse_version(Unwrap(cmd).stderr) ELSE None

StdoutVersion == IF IsSome(cmd) THEN parse_version(Unwrap(cmd).stdout) ELSE None

\* module(context) was called
Called == pc \notin {"host", "off"} /\ ~(pc = "done" /\ ran = << >>)

Returned == pc = "done" /\ ran # << >>

\* the stages of module(context), in the order of the code
Stages == <<"try_begin_scan", "exec_cmd", "parse_version", "StringFormatter::new">>

\* whether each stage succeeds, were it to run
StageOk == <<DetectionPasses, IsSome(cmd), IsSome(StderrVersion), ~format.malformed>>

\* the number of stages that run: those up to the first one that fails
StagesRun ==
    IF \A k \in 1..4 : StageOk[k] THEN 4 ELSE Min({k \in 1..4 : ~StageOk[k]})

\* the number of warnings in a log
Warnings(l) == Cardinality({k \in 1..Len(l) : l[k].level = "warn"})

\* the number of runs of the command among the calls made
CommandRuns(calls) == Cardinality({k \in 1..Len(calls) : calls[k] = "exec_cmd"})

\* the number of debug notes about an unknown variable in a log
UnknownVariableNotes(l) ==
    Cardinality({k \in 1..Len(l) :
        l[k] = [level |-> "debug", msg |-> "r: No version for R has been detected."]})

KeptElem(e) == e.kind = "text" \/ e.val = "version"

\* the segments of a format rendered with only "version" known, its value v
SegmentsWith(elems, v) ==
    LET kept == SelectSeq(elems, KeptElem)
    IN  [k \in 1..Len(kept) |->
            [value |-> IF kept[k].kind = "text" THEN kept[k].val ELSE v,
             style |-> kept[k].style]]

UnknownVariables(elems) ==
    {k \in 1..Len(elems) : elems[k].kind = "var" /\ elems[k].val # "version"}

----------------------------------------------------------------------------
(* C1 *)

----------------------------------------------------------------------------
(* C5 *)

\* C5: the stages run in the order detection, command, version, format, each
\* only when the ones before it succeeded; the invocation returns a module
\* if and only if all four succeed, and None otherwise.
C5_AllStagesOrNone ==
    /\ Called => ran = SubSeq(Stages, 1, Len(ran))
    /\ Returned =>
           /\ ran = SubSeq(Stages, 1, StagesRun)
           /\ IsSome(result) <=> (\A k \in 1..4 : StageOk[k])

\* C5's case: the version cannot be parsed; the format, which would have
\* compiled, is never looked at
C5_Witness ==
    /\ pc = "done"
    /\ ran = <<"try_begin_scan", "exec_cmd", "parse_version">>
    /\ ~format.malformed
    /\ result = None

----------------------------------------------------------------------------
(* C6 *)

\* C6 as claimed: an invocation with a malformed format returns None and
\* logs exactly one warning; one whose format compiles logs no warning.
C6_MalformedAlwaysWarns ==
    Returned =>
        /\ format.malformed => (result = None /\ Warnings(log) = 1)
        /\ ~format.malformed => Warnings(log) = 0

\* C6 amended: an invocation with a malformed format returns None; it logs
\* exactly one warning when detection passed, the command gave output and a
\* version was parsed from it (the format is compiled only then); every other
\* invocation logs no warning.
C6_WarnsWhenCompiled ==
    Returned =>
        /\ format.malformed => result = None
        /\ Warnings(log) =
               IF format.malformed /\ (\A k \in 1..3 : StageOk[k]) THEN 1 ELSE 0

\* C6's case: a version was parsed and the format is malformed
C6_Witness ==
    /\ pc = "done"
    /\ format.malformed
    /\ ran = Stages
    /\ result = None
    /\ Warnings(log) = 1

----------------------------------------------------------------------------
(* C7 *)

\* C7: with disabled = true nothing of the pipeline runs (no scan, no
\* command, no parse, no format, nothing logged) and the result is None.
C7_DisabledRunsNothing ==
    disabled =>
        /\ pc \in {"host", "done"}
        /\ ran = << >>
        /\ log = << >>
        /\ result = None

\* C7's case: disabled, with a directory, a command and a format that would
\* have given a module
C7_Witness ==
    /\ disabled
    /\ pc = "done"
    /\ \A k \in 1..4 : StageOk[k]
    /\ result = None

----------------------------------------------------------------------------
(* C8 *)

\* C8: in a returned module every "version" placeholder is rendered as the
\* version parsed, every other variable as nothing, in the order of the
\* format; an unknown variable is noted at debug level, and no warning is
\* logged.
C8_UnknownVariableIsEmpty ==
    (pc = "done" /\ IsSome(result)) =>
        /\ IsSome(StderrVersion)
        /\ Unwrap(result).segments = SegmentsWith(format.elems, Unwrap(StderrVersion))
        /\ Warnings(log) = 0
        /\ (UnknownVariables(format.elems) # {}) <=> (UnknownVariableNotes(log) > 0)

\* C8's case: a module returned for a format with "version" and an unknown
\* variable
C8_Witness ==
    /\ pc = "done"
    /\ IsSome(result)
    /\ UnknownVariables(format.elems) # {}
    /\ \E k \in 1..Len(format.elems) : format.elems[k] = VarElem("version", "bold")
    /\ Len(Unwrap(result).segments) = 2
    /\ UnknownVariableNotes(log) = 1

----------------------------------------------------------------------------
(* C9 *)

\* C9: a returned module has the name "r", an empty prefix and an empty
\* suffix.
C9_NameAndNoDecoration ==
    (pc = "done" /\ IsSome(result)) =>
        /\ Unwrap(result).name = "r"
        /\ Unwrap(result).prefix = ""
        /\ Unwrap(result).suffix = ""

\* C9's case: a module returned for the default format
C9_Witness ==
    /\ pc = "done"
    /\ IsSome(result)
    /\ format = DefaultFormat
    /\ Len(Unwrap(result).segments) = 4

----------------------------------------------------------------------------
(* C10 *)

\* what module(context) returns, as a function of the directory, the stderr
\* of the command and the format; the stdout of the command is not read
ResultFromStderr ==
    IF \A k \in 1..4 : StageOk[k]
    THEN Some([name |-> "r", prefix |-> "", suffix |-> "",
               segments |-> SegmentsWith(format.elems, Unwrap(StderrVersion))])
    ELSE None

\* C10: the command is run at most once; the text parsed is its stderr; the
\* result is a function of the stderr and never of the stdout, so that a
\* version in the stdout alone gives None.
C10_StderrOnly ==
    /\ CommandRuns(ran) <= 1
    /\ pc \in {"parse_version", "format"} => r_version = Unwrap(cmd).stderr
    /\ Returned => result = ResultFromStderr
    /\ (Returned /\ ~IsSome(StderrVersion)) => result = None

\* C10's case: a version in the stdout and none in the stderr
C10_Witness ==
    /\ pc = "done"
    /\ ran = <<"try_begin_scan", "exec_cmd", "parse_version">>
    /\ IsSome(StdoutVersion)
    /\ ~IsSome(StderrVersion)
    /\ ~format.malformed
    /\ result = None

====
